---- MODULE Spec2Model ----
(***************************************************************************)
(* Model of sagemaker-core/sagemaker_core_overview.ipynb: the cells that   *)
(* create a TrainingJob and wait for it (Boto3 poll loop and the           *)
(* SageMakerCore handle), the NextToken listing loop, and the clean-up     *)
(* sweep delete_all_sagemaker_resources.  The SageMaker control plane is   *)
(* the environment: it owns the jobs, their status and the pages it serves.*)
(***************************************************************************)
EXTENDS Integers, Sequences, FiniteSets, TLC

\* ---------------------------------------------------------------- bounds
MaxTime == 16
MaxPages == 3
MaxPageSize == 2
MaxExtra == 2
MaxRes == 2
WaitTimeout == 10

\* ------------------------------------------------------ program constants
POLL_INTERVAL == 5

VARIABLES pc, now, jobs, job_name_boto, job_name_v3, response, status,
          training_job, out, log, error,
          pages, next_token, list_response, idx,
          globals_ns, function_locals, remote, deletable_objects, di

vars == <<pc, now, jobs, job_name_boto, job_name_v3, response, status,
          training_job, out, log, error,
          pages, next_token, list_response, idx,
          globals_ns, function_locals, remote, deletable_objects, di>>

waitVars == <<now, jobs, job_name_boto, job_name_v3, response, status, training_job>>
listVars == <<pages, next_token, list_response, idx>>
sweepVars == <<globals_ns, function_locals, remote, deletable_objects, di>>

\* ------------------------------------------------------------ value space
NoName == -1
NoResponse == [TrainingJobName |-> NoName, TrainingJobStatus |-> "<none>", FailureReason |-> "<absent>"]
Unassigned == "<unassigned>"
Absent == "<absent>"
Reasons == {"AlgorithmError", "ClientError"}
NoToken == 0
RESOURCES_MODULE == "sagemaker_core.main.resources"

\* The status list of the poll loop: status in ["Failed", "Completed", "Stopped"].
TerminalStatuses_WithStopping == {"Failed", "Completed", "Stopped", "Stopping"}
TerminalStatuses_NoStopped == {"Failed", "Completed"}
TerminalStatuses == {"Failed", "Completed", "Stopped"}

\* --------------------------------------------------------- control plane
\* A job as the control plane stores it; FailureReason is present only on a failed job.
NewJob(name) == [TrainingJobName |-> name, TrainingJobStatus |-> "InProgress", FailureReason |-> Absent]

\* describe_training_job(TrainingJobName=name): the stored description of that job.
Describe(js, name) == js[name]

\* The lifecycle the control plane walks a job through.
StatusSuccessors(j) ==
  IF j.TrainingJobStatus = "InProgress"
  THEN {[j EXCEPT !.TrainingJobStatus = s] : s \in {"Completed", "Stopped", "Stopping"}}
       \cup {[j EXCEPT !.TrainingJobStatus = "Failed", !.FailureReason = r] : r \in Reasons}
  ELSE IF j.TrainingJobStatus = "Stopping"
  THEN {[j EXCEPT !.TrainingJobStatus = "Stopped"]}
  ELSE {}

\* The control plane advances the status of one job.
ControlPlaneAdvance ==
  /\ \E n \in DOMAIN jobs : \E j \in StatusSuccessors(jobs[n]) :
        jobs' = [jobs EXCEPT ![n] = j]
  /\ UNCHANGED <<pc, now, job_name_boto, job_name_v3, response, status, training_job,
                 out, log, error>>
  /\ UNCHANGED listVars
  /\ UNCHANGED sweepVars

\* Wall-clock time passes between two cells.
Tick ==
  /\ pc \in {"create_boto", "create_v3"}
  /\ now < MaxTime
  /\ now' = now + 1
  /\ UNCHANGED <<pc, jobs, job_name_boto, job_name_v3, response, status, training_job,
                 out, log, error>>
  /\ UNCHANGED listVars
  /\ UNCHANGED sweepVars

\* ------------------------------------------------------------- operators
\* "xgboost-iris-" + time.strftime("%Y-%m-%d-%H-%M-%S", time.gmtime()): one name per second.
JobName(t) == t

\* if status == "Failed": print(response["FailureReason"])
FailureOutput_Silent(resp) == <<>>
FailureOutput(resp) ==
  IF resp.TrainingJobStatus = "Failed" THEN <<resp.FailureReason>> ELSE <<>>

\* The record of one call of the cell: what was called, when, and what came back.
DescribeEvent(name, resp) ==
  [op |-> "describe", name |-> name, result |-> resp.TrainingJobStatus, at |-> now]
SleepEvent(secs) == [op |-> "sleep", name |-> NoName, result |-> "slept", at |-> now + secs]

\* --------------------------------------------- cell: Create TrainingJob with Boto3
CreateBoto ==
  /\ pc = "create_boto"
  /\ job_name_boto' = JobName(now)
  /\ jobs' = (JobName(now) :> NewJob(JobName(now))) @@ jobs
  /\ pc' = "describe"
  /\ out' = <<>>
  /\ log' = <<>>
  /\ UNCHANGED <<now, job_name_v3, response, status, training_job, error>>
  /\ UNCHANGED listVars
  /\ UNCHANGED sweepVars

\* --------------------------------------------- cell: Wait for TrainingJob with Boto3
\* One pass over the loop body up to the sleep: describe, read the status, break or print "-".
PollStep_Mutating ==
  /\ pc = "describe"
  /\ response' = Describe(jobs, job_name_boto)
  /\ status' = response'.TrainingJobStatus
  /\ log' = Append(log, DescribeEvent(job_name_boto, response'))
  /\ IF status' \in TerminalStatuses
     THEN /\ out' = out \o FailureOutput(response')
          /\ pc' = "create_v3"
          /\ jobs' = jobs
     ELSE /\ out' = Append(out, "-")
          /\ pc' = "sleep"
          /\ jobs' = [jobs EXCEPT ![job_name_boto].TrainingJobStatus = "Stopping"]
  /\ UNCHANGED <<now, job_name_boto, job_name_v3, training_job, error>>
  /\ UNCHANGED listVars
  /\ UNCHANGED sweepVars

PollStep_NoBreak ==
  /\ pc = "describe"
  /\ response' = Describe(jobs, job_name_boto)
  /\ status' = response'.TrainingJobStatus
  /\ log' = Append(log, DescribeEvent(job_name_boto, response'))
  /\ out' = Append(out, "-")
  /\ pc' = "sleep"
  /\ UNCHANGED <<now, jobs, job_name_boto, job_name_v3, training_job, error>>
  /\ UNCHANGED listVars
  /\ UNCHANGED sweepVars

PollStep ==
  /\ pc = "describe"
  /\ response' = Describe(jobs, job_name_boto)
  /\ status' = response'.TrainingJobStatus
  /\ log' = Append(log, DescribeEvent(job_name_boto, response'))
  /\ IF status' \in TerminalStatuses
     THEN /\ out' = out \o FailureOutput(response')
          /\ pc' = "create_v3"
     ELSE /\ out' = Append(out, "-")
          /\ pc' = "sleep"
  /\ UNCHANGED <<now, jobs, job_name_boto, job_name_v3, training_job, error>>
  /\ UNCHANGED listVars
  /\ UNCHANGED sweepVars

\* Seconds the loop has slept so far.
SleptSeconds(l) == POLL_INTERVAL * Cardinality({i \in 1..Len(l) : l[i].op = "sleep"})

\* time.sleep(5), then back to the top of the loop.
SleepStep_NoDelay ==
  /\ pc = "sleep"
  /\ pc' = "describe"
  /\ UNCHANGED <<now, jobs, job_name_boto, job_name_v3, response, status, training_job,
                 out, log, error>>
  /\ UNCHANGED listVars
  /\ UNCHANGED sweepVars

SleepStep_WithTimeout ==
  /\ pc = "sleep"
  /\ now + POLL_INTERVAL <= MaxTime
  /\ now' = now + POLL_INTERVAL
  /\ log' = Append(log, SleepEvent(POLL_INTERVAL))
  /\ IF SleptSeconds(log') > WaitTimeout
     THEN pc' = "halted" /\ error' = "TimeoutError"
     ELSE pc' = "describe" /\ error' = error
  /\ UNCHANGED <<jobs, job_name_boto, job_name_v3, response, status, training_job, out>>
  /\ UNCHANGED listVars
  /\ UNCHANGED sweepVars

SleepStep ==
  /\ pc = "sleep"
  /\ now + POLL_INTERVAL <= MaxTime
  /\ now' = now + POLL_INTERVAL
  /\ log' = Append(log, SleepEvent(POLL_INTERVAL))
  /\ pc' = "describe"
  /\ UNCHANGED <<jobs, job_name_boto, job_name_v3, response, status, training_job,
                 out, error>>
  /\ UNCHANGED listVars
  /\ UNCHANGED sweepVars

\* --------------------------------------------- cell: Create TrainingJob with SageMakerCore
\* The control plane refuses a second job of the same name; the cell then raises.
CreateV3 ==
  /\ pc = "create_v3"
  /\ job_name_v3' = JobName(now)
  /\ IF JobName(now) \in DOMAIN jobs
     THEN /\ error' = "ResourceInUse"
          /\ pc' = "halted"
          /\ UNCHANGED <<jobs, training_job>>
     ELSE /\ jobs' = (JobName(now) :> NewJob(JobName(now))) @@ jobs
          /\ training_job' = [training_job_name |-> JobName(now),
                              training_job_status |-> Unassigned,
                              failure_reason |-> Unassigned]
          /\ pc' = "wait_v3"
          /\ error' = error
  /\ UNCHANGED <<now, job_name_boto, response, status, out, log>>
  /\ UNCHANGED listVars
  /\ UNCHANGED sweepVars

\* --------------------------------------------- cell: training_job.wait()
\* refresh(): describe_training_job for the handle's own name, overwriting its attributes;
\* wait() repeats it until the job is in a terminal state.
RefreshStep_WrongName ==
  /\ pc = "wait_v3"
  /\ LET resp == Describe(jobs, job_name_boto) IN
       /\ training_job' = [training_job_name |-> resp.TrainingJobName,
                           training_job_status |-> resp.TrainingJobStatus,
                           failure_reason |-> resp.FailureReason]
       /\ pc' = IF resp.TrainingJobStatus \in TerminalStatuses THEN "waited" ELSE "wait_v3"
  /\ UNCHANGED <<now, jobs, job_name_boto, job_name_v3, response, status, out, log, error>>
  /\ UNCHANGED listVars
  /\ UNCHANGED sweepVars

RefreshStep ==
  /\ pc = "wait_v3"
  /\ LET resp == Describe(jobs, training_job.training_job_name) IN
       /\ training_job' = [training_job_name |-> resp.TrainingJobName,
                           training_job_status |-> resp.TrainingJobStatus,
                           failure_reason |-> resp.FailureReason]
       /\ pc' = IF resp.TrainingJobStatus \in TerminalStatuses THEN "waited" ELSE "wait_v3"
  /\ UNCHANGED <<now, jobs, job_name_boto, job_name_v3, response, status, out, log, error>>
  /\ UNCHANGED listVars
  /\ UNCHANGED sweepVars

\* ------------------------------------------------------------ the wait cells
InitWait ==
  /\ pc = "create_boto"
  /\ now = 0
  /\ jobs = <<>>
  /\ job_name_boto = NoName
  /\ job_name_v3 = NoName
  /\ response = NoResponse
  /\ status = "<none>"
  /\ training_job = [training_job_name |-> NoName, training_job_status |-> Unassigned,
                     failure_reason |-> Unassigned]
  /\ out = <<>>
  /\ log = <<>>
  /\ error = "none"
  /\ pages = <<>>
  /\ next_token = NoToken
  /\ list_response = [TrainingJobSummaries |-> <<>>, NextToken |-> NoToken]
  /\ idx = 0
  /\ globals_ns = <<>>
  /\ function_locals = <<>>
  /\ remote = {}
  /\ deletable_objects = <<>>
  /\ di = 0

NextWait ==
  \/ CreateBoto
  \/ PollStep
  \/ SleepStep
  \/ CreateV3
  \/ RefreshStep
  \/ ControlPlaneAdvance
  \/ Tick

SpecWait == InitWait /\ [][NextWait]_vars

\* ------------------------------------------------ cell: List TrainingJobs with NextToken
RECURSIVE Flatten(_)
\* The items of all pages, in page order.
Flatten(ps) == IF ps = <<>> THEN <<>> ELSE Head(ps) \o Flatten(Tail(ps))

RECURSIVE PagesOf(_, _)
\* The collection the control plane serves: page i holds sizes[i] summaries, numbered in order.
PagesOf(sizes, first) ==
  IF sizes = <<>> THEN <<>>
  ELSE <<[i \in 1..Head(sizes) |-> first + i - 1]>> \o PagesOf(Tail(sizes), first + Head(sizes))

PageSizes == UNION {[1..n -> 0..MaxPageSize] : n \in 1..MaxPages}

\* list_training_jobs: without NextToken the first page, with NextToken t the page t names;
\* the response carries a NextToken only when a further page exists.
ListTrainingJobs(ps, token) ==
  LET p == IF token = NoToken THEN 1 ELSE token IN
    [TrainingJobSummaries |-> ps[p],
     NextToken |-> IF p < Len(ps) THEN p + 1 ELSE NoToken]

ListEvent(token, resp) == [op |-> "list", name |-> token, result |-> resp.NextToken]

\* if next_token: list_training_jobs(..., NextToken=next_token) else: list_training_jobs(...)
ListCall_IgnoresToken ==
  /\ pc = "list_call"
  /\ list_response' = ListTrainingJobs(pages, NoToken)
  /\ log' = Append(log, ListEvent(NoToken, list_response'))
  /\ idx' = 1
  /\ pc' = "for_job"
  /\ UNCHANGED <<pages, next_token, out, error>>
  /\ UNCHANGED waitVars
  /\ UNCHANGED sweepVars

ListCall ==
  /\ pc = "list_call"
  /\ list_response' = ListTrainingJobs(pages, next_token)
  /\ log' = Append(log, ListEvent(next_token, list_response'))
  /\ idx' = 1
  /\ pc' = "for_job"
  /\ UNCHANGED <<pages, next_token, out, error>>
  /\ UNCHANGED waitVars
  /\ UNCHANGED sweepVars

\* for job in response["TrainingJobSummaries"]: print(...)
PrintJob ==
  /\ pc = "for_job"
  /\ idx <= Len(list_response.TrainingJobSummaries)
  /\ out' = Append(out, list_response.TrainingJobSummaries[idx])
  /\ idx' = idx + 1
  /\ UNCHANGED <<pc, pages, next_token, list_response, log, error>>
  /\ UNCHANGED waitVars
  /\ UNCHANGED sweepVars

\* next_token = response.get("NextToken"); if not next_token: break
NextPage_FirstPageOnly ==
  /\ pc = "for_job"
  /\ idx > Len(list_response.TrainingJobSummaries)
  /\ next_token' = list_response.NextToken
  /\ pc' = "listed"
  /\ UNCHANGED <<pages, list_response, idx, out, log, error>>
  /\ UNCHANGED waitVars
  /\ UNCHANGED sweepVars

NextPage ==
  /\ pc = "for_job"
  /\ idx > Len(list_response.TrainingJobSummaries)
  /\ next_token' = list_response.NextToken
  /\ pc' = IF next_token' = NoToken THEN "listed" ELSE "list_call"
  /\ UNCHANGED <<pages, list_response, idx, out, log, error>>
  /\ UNCHANGED waitVars
  /\ UNCHANGED sweepVars

InitList ==
  /\ pc = "list_call"
  /\ \E sizes \in PageSizes : pages = PagesOf(sizes, 1)
  /\ next_token = NoToken
  /\ list_response = [TrainingJobSummaries |-> <<>>, NextToken |-> NoToken]
  /\ idx = 0
  /\ out = <<>>
  /\ log = <<>>
  /\ error = "none"
  /\ now = 0
  /\ jobs = <<>>
  /\ job_name_boto = NoName
  /\ job_name_v3 = NoName
  /\ response = NoResponse
  /\ status = "<none>"
  /\ training_job = [training_job_name |-> NoName, training_job_status |-> Unassigned,
                     failure_reason |-> Unassigned]
  /\ globals_ns = <<>>
  /\ function_locals = <<>>
  /\ remote = {}
  /\ deletable_objects = <<>>
  /\ di = 0

NextList ==
  \/ ListCall
  \/ PrintJob
  \/ NextPage

SpecList == InitList /\ [][NextList]_vars

\* ------------------------------------------------ cell: Delete All SageMaker Resources
\* A Python object bound to a variable: its class's module, whether it has a delete
\* attribute, whether the notebook created the resource or fetched an existing one, and the
\* remote resource it stands for (0: none).
Object(id, module, has_delete, origin, res) ==
  [id |-> id, module |-> module, has_delete |-> has_delete, origin |-> origin, res |-> res]

\* client = boto3.client("sagemaker")
ClientObject == Object(1, "botocore.client", FALSE, "created", 0)

\* training_job = TrainingJob.create(...): the class outline lists no delete method.
TrainingJobObject == Object(2, RESOURCES_MODULE, FALSE, "created", 0)

\* Objects further cells may bind: resources created or fetched (Resource.get), with or
\* without a delete method, and objects of other modules that have a delete attribute.
UserObjects(id) ==
  {Object(id, RESOURCES_MODULE, d, o, r) : d \in BOOLEAN, o \in {"created", "fetched"}, r \in 1..MaxRes}
  \cup {Object(id, "builtins", d, "created", 0) : d \in BOOLEAN}

\* A further cell binds an object to a global variable, or a function binds it to one of
\* its local variables.
UserAssign ==
  /\ pc = "cells"
  /\ Len(globals_ns) + Len(function_locals) < 2 + MaxExtra
  /\ \E obj \in UserObjects(Len(globals_ns) + Len(function_locals) + 1) :
       \/ globals_ns' = Append(globals_ns, obj) /\ UNCHANGED function_locals
       \/ function_locals' = Append(function_locals, obj) /\ UNCHANGED globals_ns
  /\ UNCHANGED <<pc, remote, deletable_objects, di, out, log, error>>
  /\ UNCHANGED waitVars
  /\ UNCHANGED listVars

\* locals() evaluated on the first line of delete_all_sagemaker_resources: the function has
\* no parameters and has bound no variable yet.
SweepLocals == <<>>

\* hasattr(obj, "delete") and obj.__class__.__module__ == "sagemaker_core.main.resources"
IsDeletable(obj) == obj.has_delete /\ obj.module = RESOURCES_MODULE

\* all_objects = list(locals().values()) + list(globals().values()); deletable_objects = [...]
StartSweep ==
  /\ pc = "cells"
  /\ deletable_objects' = SelectSeq(SweepLocals \o globals_ns, IsDeletable)
  /\ di' = 1
  /\ pc' = "delete_loop"
  /\ UNCHANGED <<globals_ns, function_locals, remote, out, log, error>>
  /\ UNCHANGED waitVars
  /\ UNCHANGED listVars

\* What the control plane answers to a delete of resource r.
DeleteOutcomes(r, existing) ==
  IF r \in existing THEN {"ok", "ConflictError"} ELSE {"NotFoundError"}

DeleteEvent(obj, outcome) == [op |-> "delete", name |-> obj.id, result |-> outcome]

\* for obj in deletable_objects: obj.delete()  -- an exception leaves the loop and the function.
DeleteStep_SuppressErrors ==
  /\ pc = "delete_loop"
  /\ di <= Len(deletable_objects)
  /\ \E outcome \in DeleteOutcomes(deletable_objects[di].res, remote) :
       /\ log' = Append(log, DeleteEvent(deletable_objects[di], outcome))
       /\ remote' = IF outcome = "ok" THEN remote \ {deletable_objects[di].res} ELSE remote
       /\ di' = di + 1
       /\ UNCHANGED <<pc, error>>
  /\ UNCHANGED <<globals_ns, function_locals, deletable_objects, out>>
  /\ UNCHANGED waitVars
  /\ UNCHANGED listVars

DeleteStep ==
  /\ pc = "delete_loop"
  /\ di <= Len(deletable_objects)
  /\ \E outcome \in DeleteOutcomes(deletable_objects[di].res, remote) :
       /\ log' = Append(log, DeleteEvent(deletable_objects[di], outcome))
       /\ IF outcome = "ok"
          THEN /\ remote' = remote \ {deletable_objects[di].res}
               /\ di' = di + 1
               /\ UNCHANGED <<pc, error>>
          ELSE /\ error' = outcome
               /\ pc' = "raised"
               /\ UNCHANGED <<remote, di>>
  /\ UNCHANGED <<globals_ns, function_locals, deletable_objects, out>>
  /\ UNCHANGED waitVars
  /\ UNCHANGED listVars

\* The loop is exhausted and the function returns.
SweepReturn ==
  /\ pc = "delete_loop"
  /\ di > Len(deletable_objects)
  /\ pc' = "swept"
  /\ UNCHANGED <<globals_ns, function_locals, remote, deletable_objects, di, out, log, error>>
  /\ UNCHANGED waitVars
  /\ UNCHANGED listVars

InitSweep ==
  /\ pc = "cells"
  /\ globals_ns = <<ClientObject, TrainingJobObject>>
  /\ function_locals = <<>>
  /\ remote = 1..MaxRes
  /\ deletable_objects = <<>>
  /\ di = 0
  /\ out = <<>>
  /\ log = <<>>
  /\ error = "none"
  /\ now = 0
  /\ jobs = <<>>
  /\ job_name_boto = NoName
  /\ job_name_v3 = NoName
  /\ response = NoResponse
  /\ status = "<none>"
  /\ training_job = [training_job_name |-> NoName, training_job_status |-> Unassigned,
                     failure_reason |-> Unassigned]
  /\ pages = <<>>
  /\ next_token = NoToken
  /\ list_response = [TrainingJobSummaries |-> <<>>, NextToken |-> NoToken]
  /\ idx = 0

NextSweep ==
  \/ UserAssign
  \/ StartSweep
  \/ DeleteStep
  \/ SweepReturn

SpecSweep == InitSweep /\ [][NextSweep]_vars

\* ======================================================================== claims
Describes(l) == SelectSeq(l, LAMBDA e : e.op = "describe")
Lists(l) == SelectSeq(l, LAMBDA e : e.op = "list")
Deletes(l) == SelectSeq(l, LAMBDA e : e.op = "delete")
TerminalSet == {"Failed", "Completed", "Stopped"}
Polling == pc \in {"describe", "sleep"}
WaitReturned == pc \in {"create_v3", "wait_v3", "waited", "halted"}

\* C1: the poll loop is left only when the status carried by its most recent describe
\* response is Failed, Completed or Stopped, whatever statuses the control plane reported.
C1_WaitReturnsOnlyOnTerminal ==
  WaitReturned =>
    /\ status \in TerminalSet
    /\ Len(log) > 0
    /\ log[Len(log)].op = "describe"
    /\ log[Len(log)].result = status
    /\ response.TrainingJobStatus = status

C1_Witness ==
  /\ pc = "create_v3"
  /\ status = "Stopped"
  /\ \E i \in 1..Len(log) : log[i].op = "describe" /\ log[i].result = "Stopping"

\* C2: the loop issues exactly as many describe calls as it takes to see the first terminal
\* status: no describe follows a terminal response, and the loop returns, without error,
\* right after the first terminal one.
C2_MinimalDescribes ==
  LET d == Describes(log) IN
    /\ \A i \in 1..(Len(d) - 1) : d[i].result \notin TerminalSet
    /\ WaitReturned => /\ Len(d) >= 1
                       /\ d[Len(d)].result \in TerminalSet
    /\ pc = "create_v3" => error = "none"
    /\ ~(Polling /\ Len(d) >= 1 /\ d[Len(d)].result \in TerminalSet)

C2_Witness ==
  /\ pc = "create_v3"
  /\ status = "Completed"
  /\ Len(Describes(log)) = 3
  /\ Describes(log)[1].result = "InProgress"
  /\ Describes(log)[2].result = "InProgress"

\* C3: when the loop ends on Failed, the last thing it printed is the FailureReason of the
\* last describe response, and that reason is not empty.
C3_FailureReasonSurfaced ==
  (WaitReturned /\ status = "Failed") =>
    /\ Len(out) >= 1
    /\ out[Len(out)] = response.FailureReason
    /\ out[Len(out)] \notin {"", "-", Absent}
    /\ response.TrainingJobStatus = "Failed"

C3_Witness ==
  /\ pc = "create_v3"
  /\ status = "Failed"
  /\ out = <<"-", "-", "ClientError">>

C5_SleepBetweenDescribes ==
  /\ \A i \in 1..(Len(log) - 1) :
       log[i].op = "describe" => log[i + 1].op = "sleep"
  /\ LET d == Describes(log) IN
       \A i \in 1..(Len(d) - 1) : d[i + 1].at - d[i].at >= POLL_INTERVAL

C5_Witness ==
  /\ Len(Describes(log)) >= 3
  /\ pc = "sleep"

\* C6: when the listing loop ends it has printed exactly the items of all pages in page
\* order and has issued exactly one list call per page; one call and no item for an empty
\* collection.
C6_ListYieldsAllPages ==
  pc = "listed" =>
    /\ out = Flatten(pages)
    /\ Len(Lists(log)) = Len(pages)
    /\ (pages = << <<>> >> => (out = <<>> /\ Len(log) = 1))

C6_Witness ==
  /\ pc = "listed"
  /\ pages = << <<1, 2>>, <<3, 4>>, <<5>> >>
  /\ out = <<1, 2, 3, 4, 5>>
  /\ Len(Lists(log)) = 3

\* C7: a describe issued for a created job returns the description of the job of that very
\* name: the Boto3 response carries job_name_boto, the refreshed handle carries job_name_v3.
C7_DescribeReturnsCreatedName ==
  /\ response # NoResponse => response.TrainingJobName = job_name_boto
  /\ training_job.training_job_status # Unassigned =>
       (training_job.training_job_name = job_name_v3 /\ job_name_v3 # job_name_boto)
  /\ \A i \in 1..Len(log) : log[i].op = "describe" => log[i].name = job_name_boto

C7_Witness ==
  /\ pc = "waited"
  /\ response.TrainingJobName = job_name_boto
  /\ training_job.training_job_name = job_name_v3
  /\ response.TrainingJobStatus # training_job.training_job_status

\* C8: a step of the poll loop or of the handle's refresh/wait never changes the jobs the
\* control plane holds; a refresh changes only the handle's snapshot.
C8_RefreshLeavesRemote ==
  [][ /\ ((Polling \/ pc = "wait_v3") /\ (pc' # pc \/ log' # log \/ training_job' # training_job))
          => jobs' = jobs
      /\ (pc = "wait_v3" /\ training_job' # training_job)
          => UNCHANGED <<response, status, job_name_boto, job_name_v3, out>> ]_vars

C8_Witness ==
  /\ pc = "wait_v3"
  /\ training_job.training_job_status = "InProgress"
  /\ jobs[job_name_v3].TrainingJobStatus = "Failed"
  /\ Len(Describes(log)) >= 2

\* C9: after the sweep, delete() has been called on exactly the resource objects that the
\* notebook created, that have a delete method and that were bound to a local or a global
\* variable.
C9_SweepDeletesCreatedResources ==
  pc \in {"swept", "raised"} =>
    {e.name : e \in {Deletes(log)[i] : i \in 1..Len(Deletes(log))}}
      = {o.id : o \in {x \in {globals_ns[i] : i \in 1..Len(globals_ns)}
                             \cup {function_locals[i] : i \in 1..Len(function_locals)} :
                         x.module = RESOURCES_MODULE /\ x.has_delete /\ x.origin = "created"}}

\* C10: every outcome the control plane reports for a delete reaches the caller as it is: an
\* error outcome ends the sweep with that very error, and the sweep returns normally only
\* when every delete it issued was answered ok.
C10_DeleteOutcomeSurfaced ==
  LET d == Deletes(log) IN
    /\ \A i \in 1..Len(d) :
         d[i].result # "ok" => (i = Len(d) /\ pc = "raised" /\ error = d[i].result)
    /\ pc = "raised" => (Len(d) >= 1 /\ error = d[Len(d)].result /\ error # "ok")
    /\ pc = "swept" => error = "none"

C10_Witness ==
  /\ pc = "raised"
  /\ error = "NotFoundError"
  /\ Len(Deletes(log)) = 2
  /\ Deletes(log)[1].result = "ok"

\* C11: the first list call carries no cursor; every later list call carries the cursor
\* returned by the call before it and is issued only once every item of the pages fetched
\* so far has been printed; no list call follows a response without a cursor.
C11_CursorChaining ==
  [][ Len(Lists(log')) > Len(Lists(log)) =>
        LET k == Len(Lists(log))
            call == log'[Len(log')]
        IN  /\ Len(Lists(log')) = k + 1
            /\ call.op = "list"
            /\ IF k = 0
               THEN call.name = NoToken /\ out = <<>>
               ELSE /\ Lists(log)[k].result # NoToken
                    /\ call.name = Lists(log)[k].result
                    /\ out = Flatten(SubSeq(pages, 1, k))
            /\ out' = out ]_vars

C11_Witness ==
  /\ pc = "for_job"
  /\ Len(Lists(log)) = 3
  /\ Lists(log)[1].name = NoToken
  /\ Lists(log)[2].name = Lists(log)[1].result
  /\ Lists(log)[3].name = Lists(log)[2].result
  /\ Lists(log)[3].result = NoToken
  /\ Len(out) = 4

\* The wait cells under the scheduling the interpreter gives the loop: a describe call that
\* can be issued is issued and returns, and a sleep that has begun ends.
SpecWaitFair == SpecWait /\ WF_vars(PollStep) /\ WF_vars(SleepStep)

BotoJobTerminal ==
  /\ job_name_boto \in DOMAIN jobs
  /\ jobs[job_name_boto].TrainingJobStatus \in TerminalSet

\* The clock of the model has not reached its horizon in the middle of a sleep.
WithinHorizon == pc = "sleep" => now + POLL_INTERVAL <= MaxTime

\* C12: once the control plane has put the job in a terminal status (where it stays), the
\* poll loop eventually returns; and having no timeout, the loop never returns while the job
\* is not terminal: it can always take its next describe or sleep step.
C12_WaitTerminates ==
  /\ (Polling /\ BotoJobTerminal /\ WithinHorizon) ~> WaitReturned
  /\ [](WaitReturned => BotoJobTerminal)
  /\ []((Polling /\ WithinHorizon) => ENABLED (PollStep \/ SleepStep))

C12_Witness ==
  /\ pc = "create_v3"
  /\ status = "Stopped"
  /\ SleptSeconds(log) = 3 * POLL_INTERVAL
  /\ Describes(log)[3].result = "Stopping"
  /\ error = "none"

====
